---- MODULE Spec2Model ----
(***************************************************************************)
(* thread_scoped_ref: a thread-local cell (Scope) that holds a borrowed    *)
(* reference for the dynamic extent of a `scoped` call.                    *)
(*                                                                         *)
(* The model follows src/src/scope.rs (Scope, CleanupOnDrop),              *)
(* src/src/helper.rs (the accessor functions scoped / with) and            *)
(* src/src/lib.rs (the thread_scoped_ref! macro: one lazily created Scope  *)
(* per thread and slot).                                                   *)
(*                                                                         *)
(* Spec: one thread runs arbitrary user code: wherever user code runs      *)
(* (the top level, the bodies handed to scoped / with / catch_unwind) it   *)
(* may call scoped, call with, enter catch_unwind, return or panic.        *)
(* SpecThreaded: the threads of tests/threaded.rs, in every interleaving.  *)
(***************************************************************************)
EXTENDS Integers, Sequences, FiniteSets, TLC

(***************************************************************************)
(* Bounds of the model.                                                    *)
(***************************************************************************)
\* worker threads of tests/threaded.rs (number_of_threads, 40 in the test)
NumThreads == 2
\* nesting depth of the calls (scoped / with / catch_unwind) of one thread
MaxDepth == 3
\* iterations of each worker of tests/threaded.rs
NumIterations == 3
\* nesting depth of the calls of each of the two threads when one spawns the other
SpawnDepth == 2
\* nesting depth of the calls where progress is checked
FairDepth == 2

Main == 0
Workers == 1..NumThreads
Threads == {Main} \cup Workers
\* thread_num of a worker (0 .. number_of_threads - 1)
ThreadNum(t) == t - 1

\* the slots declared in tests/simple.rs (WITH_NAME, PERSON)
Slots == {"WITH_NAME", "PERSON"}
\* the slot declared in tests/threaded.rs
SOME_VALUE == "SOME_VALUE"
\* the values whose references tests/simple.rs publishes
Refs == {"thing", "person"}
\* values a user body may return
Rets == {"ret_a", "ret_b"}
\* payloads of panics raised by user code
UserPanics == {"panic_a", "panic_b"}

\* Option<T>
None == <<>>
Some(x) == <<x>>

VARIABLES
    cell,       \* key -> Scope: the thread-local Scope instance of each thread and slot
    stack,      \* thread -> sequence of call frames, innermost last
    mode,       \* thread -> "idle" (not spawned) | "run" | "unwind" (panicking) |
                \*           "done" (closure returned) | "dead" (panicked) | "abort"
    payload,    \* thread -> Option: the panic being unwound
    ret,        \* thread -> Option: the value the call that just ended handed back
    index,      \* thread -> loop counter of the worker of tests/threaded.rs
    result,     \* thread -> Option: what the worker's closure returned (its join result)
    published,  \* history: thread -> slots the thread has called scoped on
    raised,     \* history: thread -> Option: the payload as it was raised
    lastExit    \* history: thread -> the scoped or with call the thread has just left

vars == <<cell, stack, mode, payload, ret, index, result, published, raised, lastExit>>

(***************************************************************************)
(* RefCell<Option<*const T>>: a value and a borrow flag                    *)
(* (0 unused, n > 0 shared borrows, -1 one exclusive borrow).              *)
(***************************************************************************)
CanBorrow(sc) == sc.borrow >= 0
CanBorrowMut(sc) == sc.borrow = 0
Borrow(sc) == [sc EXCEPT !.borrow = sc.borrow + 1]
ReleaseBorrow(sc) == [sc EXCEPT !.borrow = sc.borrow - 1]
BorrowMut(sc) == [sc EXCEPT !.borrow = -1]
ReleaseBorrowMut(sc) == [sc EXCEPT !.borrow = 0]

(***************************************************************************)
(* Scope<T>.  Each private method yields [ok, scope, out]: ok is FALSE     *)
(* when the RefCell refuses the borrow (the method then panics), scope is  *)
(* the Scope afterwards, out the method's result.                          *)
(***************************************************************************)
ScopeDefault_HoldsValue == [value |-> Some("thing"), borrow |-> 0]

\* Scope::default: Self(RefCell::new(None))
ScopeDefault == [value |-> None, borrow |-> 0]

Set_Noop(sc, v) ==
    IF CanBorrowMut(sc)
    THEN [ok |-> TRUE, scope |-> ReleaseBorrowMut(BorrowMut(sc)), out |-> None]
    ELSE [ok |-> FALSE, scope |-> sc, out |-> None]

\* Scope::set: *self.0.borrow_mut() = value as raw pointer; the borrow ends with the statement
Set(sc, v) ==
    IF CanBorrowMut(sc)
    THEN [ok |-> TRUE, scope |-> ReleaseBorrowMut([BorrowMut(sc) EXCEPT !.value = v]), out |-> None]
    ELSE [ok |-> FALSE, scope |-> sc, out |-> None]

Get_KeepsBorrow(sc) ==
    IF CanBorrow(sc)
    THEN [ok |-> TRUE, scope |-> Borrow(sc), out |-> sc.value]
    ELSE [ok |-> FALSE, scope |-> sc, out |-> None]

Get_Takes(sc) ==
    IF CanBorrowMut(sc)
    THEN [ok |-> TRUE, scope |-> ReleaseBorrowMut([BorrowMut(sc) EXCEPT !.value = None]), out |-> sc.value]
    ELSE [ok |-> FALSE, scope |-> sc, out |-> None]

\* Scope::get: self.0.borrow(), the pointer (if any) turned into a reference;
\* the Ref guard is dropped on return
Get(sc) ==
    IF CanBorrow(sc)
    THEN [ok |-> TRUE, scope |-> ReleaseBorrow(Borrow(sc)), out |-> sc.value]
    ELSE [ok |-> FALSE, scope |-> sc, out |-> None]

Take_Peek(sc) ==
    IF CanBorrowMut(sc)
    THEN [ok |-> TRUE, scope |-> ReleaseBorrowMut(BorrowMut(sc)), out |-> None]
    ELSE [ok |-> FALSE, scope |-> sc, out |-> None]

\* Scope::take: self.0.borrow_mut().take(): the value is moved out, the cell left None
Take(sc) ==
    IF CanBorrowMut(sc)
    THEN [ok |-> TRUE, scope |-> ReleaseBorrowMut([BorrowMut(sc) EXCEPT !.value = None]), out |-> sc.value]
    ELSE [ok |-> FALSE, scope |-> sc, out |-> None]

(***************************************************************************)
(* thread_local! { static IDENT: Scope<T> = Scope::default() } and         *)
(* LocalKey::with: the calling thread's own instance.  The instance is     *)
(* created by Scope::default() at the thread's first use of the slot; no   *)
(* code can tell that from an instance that exists when the thread starts, *)
(* so the model holds one instance per thread and slot from the start.     *)
(***************************************************************************)
Keys == Threads \X (Slots \cup {SOME_VALUE})

LocalKey_Shared(t, s) == <<Main, s>>

\* the instance LocalKey::with hands to thread t for slot s
LocalKey(t, s) == <<t, s>>

(***************************************************************************)
(* CleanupOnDrop { scope: Option<&Scope>, previous_value: Option<&T> }     *)
(* The operators yield [ok, guard, cells, wrote]; wrote tells whether      *)
(* scope.set(self.previous_value) was called.                              *)
(***************************************************************************)
Cleanup_Forget(g, cells) ==
    [ok |-> TRUE, guard |-> [g EXCEPT !.scope = None], cells |-> cells, wrote |-> FALSE]

Cleanup_NoTake(g, cells) ==
    IF g.scope # None
    THEN LET k == g.scope[1]
             st == Set(cells[k], g.previous_value)
         IN  [ok |-> st.ok, guard |-> g,
              cells |-> [cells EXCEPT ![k] = st.scope], wrote |-> TRUE]
    ELSE [ok |-> TRUE, guard |-> g, cells |-> cells, wrote |-> FALSE]

Cleanup_Clear(g, cells) ==
    IF g.scope # None
    THEN LET k == g.scope[1]
             st == Set(cells[k], None)
         IN  [ok |-> st.ok, guard |-> [g EXCEPT !.scope = None],
              cells |-> [cells EXCEPT ![k] = st.scope], wrote |-> TRUE]
    ELSE [ok |-> TRUE, guard |-> g, cells |-> cells, wrote |-> FALSE]

Cleanup_AllSlots(g, cells) ==
    IF g.scope # None
    THEN LET k == g.scope[1]
             st == Set(cells[k], g.previous_value)
         IN  [ok |-> st.ok, guard |-> [g EXCEPT !.scope = None],
              cells |-> [j \in Keys |-> IF j[1] = k[1] THEN st.scope ELSE cells[j]],
              wrote |-> TRUE]
    ELSE [ok |-> TRUE, guard |-> g, cells |-> cells, wrote |-> FALSE]

\* CleanupOnDrop::cleanup: if let Some(scope) = self.scope.take() { scope.set(self.previous_value) }
Cleanup(g, cells) ==
    IF g.scope # None
    THEN LET k == g.scope[1]
             st == Set(cells[k], g.previous_value)
         IN  [ok |-> st.ok, guard |-> [g EXCEPT !.scope = None],
              cells |-> [cells EXCEPT ![k] = st.scope], wrote |-> TRUE]
    ELSE [ok |-> TRUE, guard |-> g, cells |-> cells, wrote |-> FALSE]

Drop_Nothing(g, cells) == [ok |-> TRUE, guard |-> g, cells |-> cells, wrote |-> FALSE]

\* impl Drop for CleanupOnDrop: self.cleanup()
Drop(g, cells) == Cleanup(g, cells)

(***************************************************************************)
(* Call frames and the points where user code runs.                        *)
(***************************************************************************)
Top(t) == stack[t][Len(stack[t])]
Pop(t) == SubSeq(stack[t], 1, Len(stack[t]) - 1)
SetTop(t, f) == [stack[t] EXCEPT ![Len(stack[t])] = f]

Room(t) == Len(stack[t]) < MaxDepth

NoExit == [how |-> "none"]

Aborted == \E u \in Threads : mode[u] = "abort"

\* user code of thread t is running: at the top level of the thread, or in the
\* body of the innermost call
UserPoint(t) ==
    /\ mode[t] = "run"
    /\ ~Aborted
    /\ \/ stack[t] = <<>>
       \/ /\ stack[t] # <<>>
          /\ Top(t).kind \in {"with", "catch"} \/ (Top(t).kind = "scoped" /\ Top(t).pc = "body")

\* library code of thread t stands at step pc of its innermost scoped call
LibPoint(t, pc) ==
    /\ mode[t] = "run"
    /\ ~Aborted
    /\ stack[t] # <<>>
    /\ Top(t).kind = "scoped"
    /\ Top(t).pc = pc

\* a panic starts in thread t while it runs normally
Raise(t, p) ==
    /\ mode' = [mode EXCEPT ![t] = "unwind"]
    /\ payload' = [payload EXCEPT ![t] = Some(p)]
    /\ raised' = [raised EXCEPT ![t] = Some(p)]
    /\ ret' = [ret EXCEPT ![t] = None]

Quiet(t) ==
    /\ ret' = [ret EXCEPT ![t] = None]
    /\ UNCHANGED <<mode, payload, raised>>

(***************************************************************************)
(* helper::scoped / Scope::scoped                                          *)
(* History fields of a frame: before (the cell's value when the call       *)
(* began), calls (how often the body was invoked), body_ret (what the body *)
(* returned), restores (which steps wrote the captured value back).        *)
(***************************************************************************)
ScopedResult_Lost(f) == None

\* the tail expression of Scope::scoped: fun_result
ScopedResult(f) == f.fun_result

\* Scope::scoped(&self, value, fun) on the instance k, up to the construction
\* of the guard: CleanupOnDrop { scope: Some(self), previous_value: self.take() }
ScopeScoped(t, k, r) ==
    /\ UNCHANGED index
    /\ UserPoint(t)
    /\ Room(t)
    /\ LET s == k[2]
           cells == cell
           tk == Take(cells[k])
       IN  IF tk.ok
           THEN /\ cell' = [cells EXCEPT ![k] = tk.scope]
                /\ stack' = [stack EXCEPT ![t] = Append(@,
                       [kind |-> "scoped", slot |-> s, value |-> r, pc |-> "set",
                        guard |-> [scope |-> Some(k), previous_value |-> tk.out],
                        fun_result |-> None,
                        before |-> cells[k].value, calls |-> 0, body_ret |-> None,
                        restores |-> <<>>])]
                /\ Quiet(t)
           ELSE /\ cell' = cells
                /\ UNCHANGED stack
                /\ Raise(t, "BorrowMutError")
    /\ published' = [published EXCEPT ![t] = @ \cup {k[2]}]
    /\ lastExit' = [lastExit EXCEPT ![t] = NoExit]
    /\ UNCHANGED result

ScopedCall_OneKey(t, s, r) == ScopeScoped(t, <<t, "WITH_NAME">>, r)

\* helper::scoped(key, value, fun): key.with(|scope| scope.scoped(value, fun))
ScopedCall(t, s, r) == ScopeScoped(t, LocalKey(t, s), r)

\* the caller's own IDENT.with(|scope| scope.scoped(&value, || ...))
KeyWithScoped(t, s, r) == \E k \in {LocalKey(t, s)} : ScopeScoped(t, k, r)

\* self.set(Some(value)); then fun() starts
ScopedSet(t) ==
    /\ UNCHANGED index
    /\ LibPoint(t, "set")
    /\ LET f == Top(t)
           k == f.guard.scope[1]
           st == Set(cell[k], Some(f.value))
       IN  IF st.ok
           THEN /\ cell' = [cell EXCEPT ![k] = st.scope]
                /\ stack' = [stack EXCEPT ![t] = SetTop(t, [f EXCEPT !.pc = "body", !.calls = @ + 1])]
                /\ Quiet(t)
           ELSE /\ UNCHANGED <<cell, stack>>
                /\ Raise(t, "BorrowMutError")
    /\ lastExit' = [lastExit EXCEPT ![t] = NoExit]
    /\ UNCHANGED <<result, published>>

\* let fun_result = fun(): the body returns v
ScopedBodyReturn(t, v) ==
    /\ UNCHANGED index
    /\ UserPoint(t)
    /\ stack[t] # <<>>
    /\ Top(t).kind = "scoped"
    /\ stack' = [stack EXCEPT ![t] = SetTop(t, [Top(t) EXCEPT !.pc = "cleanup", !.fun_result = Some(v),
                                                         !.body_ret = Some(v)])]
    /\ Quiet(t)
    /\ UNCHANGED <<cell, result, published>>
    /\ lastExit' = [lastExit EXCEPT ![t] = NoExit]

\* cleanup_on_drop.cleanup()
ScopedCleanup(t) ==
    /\ UNCHANGED index
    /\ LibPoint(t, "cleanup")
    /\ LET f == Top(t)
           c == Cleanup(f.guard, cell)
       IN  IF c.ok
           THEN /\ cell' = c.cells
                /\ stack' = [stack EXCEPT ![t] = SetTop(t,
                       [f EXCEPT !.pc = "return", !.guard = c.guard,
                                 !.restores = IF c.wrote THEN Append(@, "cleanup") ELSE @])]
                /\ Quiet(t)
           ELSE /\ cell' = c.cells
                /\ stack' = [stack EXCEPT ![t] = SetTop(t, [f EXCEPT !.guard = c.guard])]
                /\ Raise(t, "BorrowMutError")
    /\ lastExit' = [lastExit EXCEPT ![t] = NoExit]
    /\ UNCHANGED <<result, published>>

\* fun_result is returned; the guard goes out of scope and is dropped
ScopedReturn(t) ==
    /\ UNCHANGED index
    /\ LibPoint(t, "return")
    /\ LET f == Top(t)
           d == Drop(f.guard, cell)
       IN  IF d.ok
           THEN /\ cell' = d.cells
                /\ stack' = [stack EXCEPT ![t] = Pop(t)]
                /\ ret' = [ret EXCEPT ![t] = ScopedResult(f)]
                /\ UNCHANGED <<mode, payload, raised>>
                /\ lastExit' = [lastExit EXCEPT ![t] =
                       [how |-> "return", slot |-> f.slot, before |-> f.before,
                        unchanged |-> TRUE, calls |-> f.calls, body_ret |-> f.body_ret,
                        returned |-> ScopedResult(f),
                        restores |-> IF d.wrote THEN Append(f.restores, "drop")
                                     ELSE f.restores]]
           ELSE /\ cell' = d.cells
                /\ stack' = [stack EXCEPT ![t] = SetTop(t, [f EXCEPT !.guard = d.guard])]
                /\ Raise(t, "BorrowMutError")
                /\ lastExit' = [lastExit EXCEPT ![t] = NoExit]
    /\ UNCHANGED <<result, published>>

(***************************************************************************)
(* helper::with / Scope::with                                              *)
(***************************************************************************)
\* Scope::with(&self, fun) on the instance k: let value = self.get(); fun(value) starts
ScopeWith(t, k) ==
    /\ UNCHANGED index
    /\ UserPoint(t)
    /\ Room(t)
    /\ LET s == k[2]
           cells == cell
           g == Get(cells[k])
       IN  IF g.ok
           THEN /\ cell' = [cells EXCEPT ![k] = g.scope]
                /\ stack' = [stack EXCEPT ![t] = Append(@,
                       [kind |-> "with", slot |-> s, value |-> g.out,
                        before |-> cells[k].value, calls |-> 1])]
                /\ Quiet(t)
           ELSE /\ cell' = cells
                /\ UNCHANGED stack
                /\ Raise(t, "BorrowError")
    /\ UNCHANGED <<result, published, lastExit>>

\* helper::with(key, fun): key.with(|scope| scope.with(fun))
WithCall(t, s) == ScopeWith(t, LocalKey(t, s))

\* the caller's own IDENT.with(|scope| scope.with(|maybe| ...))
KeyWithWith(t, s) == \E k \in {LocalKey(t, s)} : ScopeWith(t, k)

\* fun(value) returns v, and with returns it
WithReturn(t, v) ==
    /\ UNCHANGED index
    /\ UserPoint(t)
    /\ stack[t] # <<>>
    /\ Top(t).kind = "with"
    /\ stack' = [stack EXCEPT ![t] = Pop(t)]
    /\ ret' = [ret EXCEPT ![t] = Some(v)]
    /\ UNCHANGED <<cell, mode, payload, raised, result, published>>
    /\ lastExit' = [lastExit EXCEPT ![t] =
           [how |-> "with", slot |-> Top(t).slot, before |-> Top(t).before,
            value |-> Top(t).value, calls |-> Top(t).calls, body_ret |-> Some(v),
            returned |-> Some(v)]]

(***************************************************************************)
(* What user code does besides calling the library, and unwinding.         *)
(***************************************************************************)
\* panic!(..) in user code
Panic(t, p) ==
    /\ UNCHANGED index
    /\ UserPoint(t)
    /\ Raise(t, p)
    /\ UNCHANGED <<cell, stack, result, published>>
    /\ lastExit' = [lastExit EXCEPT ![t] = NoExit]

\* std::panic::catch_unwind(|| ...) is entered
CatchCall(t) ==
    /\ UNCHANGED index
    /\ UserPoint(t)
    /\ Room(t)
    /\ stack' = [stack EXCEPT ![t] = Append(@, [kind |-> "catch"])]
    /\ Quiet(t)
    /\ UNCHANGED <<cell, result, published>>
    /\ lastExit' = [lastExit EXCEPT ![t] = NoExit]

\* the closure of catch_unwind returns v: Ok(v).  (Ok(v) and Err(payload) are
\* told apart by their contents: no payload is a return value.)
CatchReturn(t, v) ==
    /\ UNCHANGED index
    /\ UserPoint(t)
    /\ stack[t] # <<>>
    /\ Top(t).kind = "catch"
    /\ stack' = [stack EXCEPT ![t] = Pop(t)]
    /\ ret' = [ret EXCEPT ![t] = Some(v)]
    /\ UNCHANGED <<cell, mode, payload, raised, result, published>>
    /\ lastExit' = [lastExit EXCEPT ![t] = NoExit]

Spawn_Inherit(t, u) ==
    /\ UserPoint(t)
    /\ mode[u] = "idle"
    /\ mode' = [mode EXCEPT ![u] = "run"]
    /\ ret' = [ret EXCEPT ![t] = None]
    /\ cell' = [k \in Keys |-> IF k[1] = u THEN cell[<<t, k[2]>>] ELSE cell[k]]
    /\ UNCHANGED <<stack, payload, raised, result, published>>
    /\ lastExit' = [lastExit EXCEPT ![t] = NoExit]

\* std::thread::spawn: thread u starts, with no thread-local instance yet
Spawn(t, u) ==
    /\ UserPoint(t)
    /\ mode[u] = "idle"
    /\ mode' = [mode EXCEPT ![u] = "run"]
    /\ ret' = [ret EXCEPT ![t] = None]
    /\ UNCHANGED <<cell, stack, payload, raised, result, published>>
    /\ lastExit' = [lastExit EXCEPT ![t] = NoExit]

Unwinding(t, kind) ==
    /\ mode[t] = "unwind"
    /\ ~Aborted
    /\ stack[t] # <<>>
    /\ Top(t).kind = kind

\* the panic unwinds out of a scoped call: its guard, if constructed, is dropped
UnwindScoped(t) ==
    /\ UNCHANGED index
    /\ Unwinding(t, "scoped")
    /\ LET f == Top(t)
           d == Drop(f.guard, cell)
       IN  IF d.ok
           THEN /\ cell' = d.cells
                /\ stack' = [stack EXCEPT ![t] = Pop(t)]
                /\ UNCHANGED <<mode, payload>>
                /\ lastExit' = [lastExit EXCEPT ![t] =
                       [how |-> "panic", slot |-> f.slot, before |-> f.before,
                        unchanged |-> payload[t] = raised[t],
                        restores |-> IF d.wrote THEN Append(f.restores, "drop")
                                     ELSE f.restores]]
           ELSE \* a panic while panicking: the process aborts
                /\ cell' = d.cells
                /\ mode' = [mode EXCEPT ![t] = "abort"]
                /\ UNCHANGED <<stack, payload, lastExit>>
    /\ UNCHANGED <<ret, raised, result, published>>

\* the panic unwinds out of a with call
UnwindWith(t) ==
    /\ UNCHANGED index
    /\ Unwinding(t, "with")
    /\ stack' = [stack EXCEPT ![t] = Pop(t)]
    /\ UNCHANGED <<cell, mode, payload, ret, raised, result, published, lastExit>>

\* catch_unwind stops the panic: Err(payload)
UnwindCatch(t) ==
    /\ UNCHANGED index
    /\ Unwinding(t, "catch")
    /\ stack' = [stack EXCEPT ![t] = Pop(t)]
    /\ mode' = [mode EXCEPT ![t] = "run"]
    /\ ret' = [ret EXCEPT ![t] = payload[t]]
    /\ payload' = [payload EXCEPT ![t] = None]
    /\ raised' = [raised EXCEPT ![t] = None]
    /\ UNCHANGED <<cell, result, published, lastExit>>

\* the panic leaves the thread's closure: the thread ends, its join handle holds Err
ThreadPanicked(t) ==
    /\ UNCHANGED index
    /\ mode[t] = "unwind"
    /\ ~Aborted
    /\ stack[t] = <<>>
    /\ mode' = [mode EXCEPT ![t] = "dead"]
    /\ result' = [result EXCEPT ![t] = payload[t]]
    /\ UNCHANGED <<cell, stack, payload, ret, raised, published>>
    /\ lastExit' = [lastExit EXCEPT ![t] = NoExit]

(***************************************************************************)
(* The library under arbitrary user code.                                  *)
(***************************************************************************)
Init ==
    /\ cell = [k \in Keys |-> ScopeDefault]
    /\ stack = [t \in Threads |-> <<>>]
    /\ mode = [t \in Threads |-> IF t = Main THEN "run" ELSE "idle"]
    /\ payload = [t \in Threads |-> None]
    /\ ret = [t \in Threads |-> None]
    /\ index = [t \in Threads |-> 0]
    /\ result = [t \in Threads |-> None]
    /\ published = [t \in Threads |-> {}]
    /\ raised = [t \in Threads |-> None]
    /\ lastExit = [t \in Threads |-> NoExit]

Next ==
    \E t \in Threads :
        \/ \E s \in Slots, r \in Refs : ScopedCall(t, s, r)
        \/ ScopedSet(t)
        \/ \E v \in Rets : ScopedBodyReturn(t, v)
        \/ ScopedCleanup(t)
        \/ ScopedReturn(t)
        \/ \E s \in Slots : WithCall(t, s)
        \/ \E s \in Slots, r \in Refs : KeyWithScoped(t, s, r)
        \/ \E s \in Slots : KeyWithWith(t, s)
        \/ \E v \in Rets : WithReturn(t, v)
        \/ \E p \in UserPanics : Panic(t, p)
        \/ CatchCall(t)
        \/ \E v \in Rets : CatchReturn(t, v)
        \/ UnwindScoped(t)
        \/ UnwindWith(t)
        \/ UnwindCatch(t)
        \/ ThreadPanicked(t)

Spec == Init /\ [][Next]_vars

(***************************************************************************)
(* Properties of the library under arbitrary user code (Spec).             *)
(***************************************************************************)
LibPanics == {"BorrowError", "BorrowMutError"}

IsWith(t, i) == stack[t][i].kind = "with"

\* the scoped calls on slot s of thread t that are active beneath frame i
ActiveBelow(t, i, s) ==
    {j \in 1..(i - 1) : stack[t][j].kind = "scoped" /\ stack[t][j].slot = s}

\* the reference of the innermost of them, if any
InnermostBelow(t, i, s) ==
    IF ActiveBelow(t, i, s) = {} THEN None
    ELSE LET j == CHOOSE x \in ActiveBelow(t, i, s) : \A y \in ActiveBelow(t, i, s) : y <= x
         IN  Some(stack[t][j].value)

\* what a with on slot s would hand to its body now
WouldRead(t, s) == Get(cell[LocalKey(t, s)]).out

TopIsWith(t) == stack[t] # <<>> /\ Top(t).kind = "with"

\* C1: a with is never handed a reference unless a scoped call that published
\* that very reference on the thread and slot is still active around it; so
\* the reference of a call that has ended (returned or unwound) is not seen
\* again.
C1_NoReferenceAfterReturn ==
    \A t \in Threads : \A i \in 1..Len(stack[t]) :
        (IsWith(t, i) /\ stack[t][i].value # None) =>
            \E j \in ActiveBelow(t, i, stack[t][i].slot) :
                stack[t][i].value = Some(stack[t][j].value)

\* a scoped call has unwound, the panic was caught, and a with on its slot runs
C1_Witness ==
    \E t \in Threads :
        /\ lastExit[t].how = "panic"
        /\ mode[t] = "run"
        /\ TopIsWith(t)
        /\ Top(t).slot = lastExit[t].slot
        /\ Top(t).value = None

\* C2: a with that runs inside the body of scoped(slot, r, b), with scoped(slot, r, b)
\* the innermost active scoped call on that slot, receives Some(r).
C2_PublishVisible ==
    \A t \in Threads : \A i \in 1..Len(stack[t]) :
        (IsWith(t, i) /\ ActiveBelow(t, i, stack[t][i].slot) # {}) =>
            /\ stack[t][i].value # None
            /\ stack[t][i].value = InnermostBelow(t, i, stack[t][i].slot)

\* a with runs in a body, not directly but through an intermediate call
C2_Witness ==
    \E t \in Threads :
        /\ Len(stack[t]) = 3
        /\ stack[t][1].kind = "scoped"
        /\ stack[t][2].kind = "catch"
        /\ IsWith(t, 3)
        /\ stack[t][3].slot = stack[t][1].slot
        /\ stack[t][3].value = Some(stack[t][1].value)

\* C3: when a panic has left a scoped call, the cell holds what it held just
\* before that call, and a with that runs next on the slot (the panic caught)
\* is handed exactly that: None, or the enclosing publication's reference.
C3_RestoreOnPanic ==
    \A t \in Threads :
        lastExit[t].how = "panic" =>
            /\ cell[LocalKey(t, lastExit[t].slot)].value = lastExit[t].before
            /\ (mode[t] = "run" /\ TopIsWith(t) /\ Top(t).slot = lastExit[t].slot)
                   => Top(t).value = lastExit[t].before

\* a nested scoped call panicked, the panic was caught inside the enclosing
\* body, and a with reads the enclosing publication's reference
C3_Witness ==
    \E t \in Threads :
        /\ lastExit[t].how = "panic"
        /\ lastExit[t].before # None
        /\ mode[t] = "run"
        /\ TopIsWith(t)
        /\ Top(t).slot = lastExit[t].slot
        /\ Top(t).value = lastExit[t].before

\* C4: when scoped has returned normally, the cell of the thread and slot
\* holds the value it held immediately before the call.
C4_RestoreOnReturn ==
    \A t \in Threads :
        lastExit[t].how = "return" =>
            cell[LocalKey(t, lastExit[t].slot)].value = lastExit[t].before

\* a nested scoped call has returned: the value before it was a reference
C4_Witness ==
    \E t \in Threads :
        /\ lastExit[t].how = "return"
        /\ lastExit[t].before # None
        /\ ret[t] # None

\* C5: wherever user code runs, a with on a slot yields the reference of the
\* innermost scoped call still active on that slot (None if there is none),
\* at any nesting depth, and so the enclosing call's reference again right
\* after an inner call has ended.
C5_InnermostActive ==
    \A t \in Threads :
        UserPoint(t) =>
            \A s \in Slots :
                /\ Get(cell[LocalKey(t, s)]).ok
                /\ WouldRead(t, s) = InnermostBelow(t, Len(stack[t]) + 1, s)

\* an inner call, which had published another reference, has just returned
\* into the body of the enclosing call
C5_Witness ==
    \E t \in Threads :
        /\ UserPoint(t)
        /\ lastExit[t].how = "return"
        /\ lastExit[t].before # None
        /\ stack[t] # <<>>
        /\ Top(t).kind = "scoped"
        /\ Top(t).slot = lastExit[t].slot
        /\ WouldRead(t, Top(t).slot) = Some(Top(t).value)

\* C8: before a thread has made any scoped call on a slot, a with on that slot
\* is handed None.
C8_DefaultEmpty ==
    \A t \in Threads : \A s \in Slots \ published[t] :
        /\ WouldRead(t, s) = None
        /\ \A i \in 1..Len(stack[t]) :
               (IsWith(t, i) /\ stack[t][i].slot = s) => stack[t][i].value = None

\* a with runs on a slot the thread has not published on
C8_Witness ==
    \E t \in Threads :
        /\ TopIsWith(t)
        /\ Top(t).slot \notin published[t]
        /\ Top(t).value = None

\* C9: a with on a slot with no active scoped call has its body invoked with
\* None, and with never fails in the library (get never finds the RefCell
\* exclusively borrowed).
C9_AbsenceIsNone ==
    \A t \in Threads :
        /\ raised[t] # Some("BorrowError")
        /\ \A i \in 1..Len(stack[t]) :
               (IsWith(t, i) /\ ActiveBelow(t, i, stack[t][i].slot) = {})
                   => stack[t][i].value = None

\* after a publication on the slot was restored, the body of a with runs,
\* with None
C9_Witness ==
    \E t \in Threads :
        /\ TopIsWith(t)
        /\ Top(t).slot \in published[t]
        /\ ActiveBelow(t, Len(stack[t]), Top(t).slot) = {}
        /\ Top(t).value = None

\* C10: a panic of the body leaves scoped as the panic that was raised, with
\* the restore done, and no other failure takes its place: the guard's drop
\* does not panic while unwinding (which would abort the process), and the
\* panic stays in flight until a catch_unwind of the caller stops it.
C10_PanicPropagates ==
    \A t \in Threads :
        /\ mode[t] # "abort"
        /\ mode[t] = "unwind" => (payload[t] # None /\ payload[t] = raised[t])
        /\ lastExit[t].how = "panic" =>
               /\ lastExit[t].unchanged
               /\ cell[LocalKey(t, lastExit[t].slot)].value = lastExit[t].before
               /\ (mode[t] = "run" /\ ret[t] # None) => ret[t][1] \in UserPanics

\* the caller has caught the panic of the body, after it passed a with and
\* the scoped call: it holds Err of the payload
C10_Witness ==
    \E t \in Threads :
        /\ lastExit[t].how = "panic"
        /\ mode[t] = "run"
        /\ ret[t] = Some("panic_a")

\* C11: scoped and with invoke their body once and hand back to their caller
\* the value the body returned, whatever the cell held when they were called.
C11_BodyOnceResultUnchanged ==
    \A t \in Threads :
        /\ lastExit[t].how \in {"return", "with"} =>
               /\ lastExit[t].calls = 1
               /\ lastExit[t].body_ret # None
               /\ lastExit[t].returned = lastExit[t].body_ret
               /\ ret[t] # None => ret[t] = lastExit[t].body_ret
        /\ \A i \in 1..Len(stack[t]) :
               stack[t][i].kind \in {"scoped", "with"} => stack[t][i].calls <= 1

\* a nested scoped call (the cell was Active when it began) has handed its
\* body's value back
C11_Witness ==
    \E t \in Threads :
        /\ lastExit[t].how = "return"
        /\ lastExit[t].before # None
        /\ lastExit[t].body_ret = Some("ret_b")
        /\ ret[t] = Some("ret_b")

\* C12: with does not change the cell: while the body of a with is the
\* innermost call (it has started, or the scoped calls it made have ended,
\* or it is panicking) and when the with has returned, the cell holds what it
\* held when the with began; a with that follows at once is handed the same.
C12_WithLeavesCell ==
    \A t \in Threads :
        /\ TopIsWith(t) =>
               /\ cell[LocalKey(t, Top(t).slot)].value = Top(t).before
               /\ Top(t).value = Top(t).before
        /\ lastExit[t].how = "with" =>
               /\ cell[LocalKey(t, lastExit[t].slot)].value = lastExit[t].before
               /\ (TopIsWith(t) /\ Top(t).slot = lastExit[t].slot)
                      => Top(t).value = lastExit[t].value

\* a second with follows a first on an Active cell and reads the same reference
C12_Witness ==
    \E t \in Threads :
        /\ lastExit[t].how = "with"
        /\ lastExit[t].value # None
        /\ TopIsWith(t)
        /\ Top(t).slot = lastExit[t].slot
        /\ Top(t).value = lastExit[t].value

\* C14: a scoped call that has ended wrote its captured previous value back
\* exactly once: when it returned, by the explicit cleanup and not again by the
\* drop of the guard; when it unwound, by the drop of the guard alone.
C14_RestoreExactlyOnce ==
    \A t \in Threads :
        /\ lastExit[t].how = "return" => lastExit[t].restores = <<"cleanup">>
        /\ lastExit[t].how = "panic" => lastExit[t].restores = <<"drop">>
        /\ \A i \in 1..Len(stack[t]) :
               stack[t][i].kind = "scoped" =>
                   /\ Len(stack[t][i].restores) <= 1
                   /\ (stack[t][i].restores = <<>>) <=> (stack[t][i].guard.scope # None)

\* a nested scoped call has unwound and restored a reference, not None
C14_Witness ==
    \E t \in Threads :
        /\ lastExit[t].how = "panic"
        /\ lastExit[t].before # None
        /\ lastExit[t].restores = <<"drop">>
        /\ cell[LocalKey(t, lastExit[t].slot)].value = lastExit[t].before

\* the scoped call at the top of thread t's stack is about to restore: it
\* stands before its explicit cleanup, or a panic is about to drop its guard
AboutToRestore(t) ==
    /\ stack[t] # <<>>
    /\ Top(t).kind = "scoped"
    /\ Top(t).guard.scope # None
    /\ \/ mode[t] = "run" /\ Top(t).pc = "cleanup"
       \/ mode[t] = "unwind"

\* C15: restores run in the reverse order of the publishes: only the innermost
\* call has restored while the calls around it still hold their guards, every
\* guard holds the reference of the next call outwards on its cell, and a call
\* that is about to restore finds its own reference in the cell.
C15_RestoreInReverseOrder ==
    \A t \in Threads :
        /\ AboutToRestore(t) =>
               cell[LocalKey(t, Top(t).slot)].value = Some(Top(t).value)
        /\ \A i \in 1..Len(stack[t]) :
               stack[t][i].kind = "scoped" =>
                   /\ stack[t][i].guard.previous_value = InnermostBelow(t, i, stack[t][i].slot)
                   /\ i < Len(stack[t]) =>
                          /\ stack[t][i].restores = <<>>
                          /\ stack[t][i].guard.scope # None

\* a panic unwinds through three scoped calls nested on one cell: the innermost
\* has restored, the middle one is about to, the outermost still holds its guard
C15_Witness ==
    \E t \in Threads :
        /\ mode[t] = "unwind"
        /\ Len(stack[t]) = 2
        /\ AboutToRestore(t)
        /\ stack[t][1].kind = "scoped"
        /\ stack[t][1].slot = Top(t).slot
        /\ stack[t][1].value # Top(t).value
        /\ lastExit[t].how = "panic"
        /\ lastExit[t].slot = Top(t).slot
        /\ lastExit[t].before = Some(Top(t).value)
        /\ cell[LocalKey(t, Top(t).slot)].value = Some(Top(t).value)

\* C16: every reference the library holds is the reference of a scoped call
\* that is still active on that thread and cell: the current value of a cell is
\* the reference of an active call that has published, and the previous value
\* captured in a guard is the reference of an active call around the guard's.
C16_HeldReferencesAreActive ==
    /\ \A k \in Keys :
           cell[k].value # None =>
               \E i \in 1..Len(stack[k[1]]) :
                   /\ stack[k[1]][i].kind = "scoped"
                   /\ stack[k[1]][i].slot = k[2]
                   /\ stack[k[1]][i].pc # "set"
                   /\ cell[k].value = Some(stack[k[1]][i].value)
    /\ \A t \in Threads : \A i \in 1..Len(stack[t]) :
           (stack[t][i].kind = "scoped" /\ stack[t][i].guard.previous_value # None) =>
               \E j \in ActiveBelow(t, i, stack[t][i].slot) :
                   stack[t][i].guard.previous_value = Some(stack[t][j].value)

\* a nested scoped call is in its body: its guard holds the outer call's
\* reference and the cell holds its own
C16_Witness ==
    \E t \in Threads :
        /\ Len(stack[t]) = 2
        /\ LibPoint(t, "body")
        /\ stack[t][1].kind = "scoped"
        /\ Top(t).guard.previous_value = Some(stack[t][1].value)
        /\ cell[LocalKey(t, Top(t).slot)].value = Some(Top(t).value)
        /\ Top(t).value # stack[t][1].value

\* C19: no borrow of a cell's RefCell outlives the method that took it, so none
\* is held while a body runs or a guard is dropped: whatever the nesting of
\* scoped and with, no call has panicked with BorrowError or BorrowMutError
\* (nor aborted the process by doing so while unwinding); and a with body
\* keeps the snapshot it was given when it calls scoped, while a with inside
\* that scoped call is handed the new reference.
C19_NoBorrowHeldInBodies ==
    /\ \A k \in Keys : cell[k].borrow = 0
    /\ \A t \in Threads :
           /\ mode[t] # "abort"
           /\ raised[t] # None => raised[t][1] \notin LibPanics
           /\ payload[t] # None => payload[t][1] \notin LibPanics
           /\ \A i \in 1..Len(stack[t]) :
                  IsWith(t, i) =>
                      /\ stack[t][i].value = stack[t][i].before
                      /\ stack[t][i].value = InnermostBelow(t, i, stack[t][i].slot)

\* a with body on an Empty cell called scoped, whose body called with: the
\* outer body still holds None, the inner one holds the new reference
C19_Witness ==
    \E t \in Threads :
        /\ Len(stack[t]) = 3
        /\ IsWith(t, 1)
        /\ stack[t][1].value = None
        /\ stack[t][2].kind = "scoped"
        /\ stack[t][2].slot = stack[t][1].slot
        /\ IsWith(t, 3)
        /\ stack[t][3].slot = stack[t][1].slot
        /\ stack[t][3].value = Some(stack[t][2].value)
        /\ mode[t] = "run"

\* the innermost call of thread t in stack st is a scoped call on slot s
ScopedOn(st, t, s) ==
    /\ st[t] # <<>>
    /\ st[t][Len(st[t])].kind = "scoped"
    /\ st[t][Len(st[t])].slot = s

\* C20: the cells of one thread's slots are independent: a step changes the
\* cell of a slot only as a step of a scoped call on that very slot (its take,
\* set, cleanup or the drop of its guard), so a scoped call on another slot,
\* returning or panicking, leaves the cell and what with reads from it alone.
C20_SlotsIndependent ==
    [][\A t \in Threads : \A s \in Slots :
           cell'[<<t, s>>] # cell[<<t, s>>] =>
               ScopedOn(stack, t, s) \/ ScopedOn(stack', t, s)]_vars

\* inside a scoped call on one slot, itself inside a scoped call on another
\* slot, a with on the outer slot reads the outer call's reference
C20_Witness ==
    \E t \in Threads :
        /\ Len(stack[t]) = 3
        /\ stack[t][1].kind = "scoped"
        /\ stack[t][2].kind = "scoped"
        /\ stack[t][2].slot # stack[t][1].slot
        /\ IsWith(t, 3)
        /\ stack[t][3].slot = stack[t][1].slot
        /\ stack[t][3].value = Some(stack[t][1].value)
        /\ cell[LocalKey(t, stack[t][2].slot)].value = Some(stack[t][2].value)

FRoom(t) == Len(stack[t]) < FairDepth

FScoped(t, s, r) == FRoom(t) /\ ScopedCall(t, s, r)
FWith(t, s) == FRoom(t) /\ WithCall(t, s)
FCatch(t) == FRoom(t) /\ CatchCall(t)

NextFair ==
    \/ \E s \in Slots, r \in Refs : FScoped(Main, s, r)
    \/ ScopedSet(Main)
    \/ \E v \in Rets : ScopedBodyReturn(Main, v)
    \/ ScopedCleanup(Main)
    \/ ScopedReturn(Main)
    \/ \E s \in Slots : FWith(Main, s)
    \/ \E v \in Rets : WithReturn(Main, v)
    \/ \E p \in UserPanics : Panic(Main, p)
    \/ FCatch(Main)
    \/ \E v \in Rets : CatchReturn(Main, v)
    \/ UnwindScoped(Main)
    \/ UnwindWith(Main)
    \/ UnwindCatch(Main)
    \/ ThreadPanicked(Main)

LibStep(t) ==
    \/ ScopedSet(t)
    \/ ScopedCleanup(t)
    \/ ScopedReturn(t)
    \/ UnwindScoped(t)
    \/ UnwindWith(t)
    \/ UnwindCatch(t)
    \/ ThreadPanicked(t)

\* the body of the call at depth d of thread t ends: by return or by panic
BodyEnds(t, d) ==
    /\ Len(stack[t]) = d
    /\ \/ \E v \in Rets : ScopedBodyReturn(t, v)
       \/ \E v \in Rets : WithReturn(t, v)
       \/ \E v \in Rets : CatchReturn(t, v)
       \/ \E p \in UserPanics : Panic(t, p)

SpecFair ==
    /\ Init
    /\ [][NextFair]_vars
    /\ WF_vars(LibStep(Main))
    /\ \A d \in 1..FairDepth : SF_vars(BodyEnds(Main, d))

\* the scoped call at depth d of thread t has ended and its restore is done
Restored(t, d) ==
    /\ Len(stack[t]) = d - 1
    /\ lastExit[t].how \in {"return", "panic"}
    /\ cell[LocalKey(t, lastExit[t].slot)].value = lastExit[t].before

\* C17: if every body ends, every scoped call that has begun ends with its
\* restore done, and a thread with calls in progress comes to have none, all
\* its cells Empty again.
C17_EventuallyRestored ==
    /\ \A d \in 1..FairDepth :
           (Len(stack[Main]) >= d /\ stack[Main][d].kind = "scoped") ~> Restored(Main, d)
    /\ (stack[Main] # <<>>)
           ~> (stack[Main] = <<>> /\ \A s \in Slots : cell[LocalKey(Main, s)].value = None)

\* the outermost scoped call of a thread has returned after publishing: no
\* call is in progress and the cells are Empty
C17_Witness ==
    \E t \in Threads :
        /\ stack[t] = <<>>
        /\ lastExit[t].how = "return"
        /\ published[t] = Slots
        /\ \A s \in Slots : cell[LocalKey(t, s)].value = None

(***************************************************************************)
(* tests/threaded.rs: the main thread spawns the workers and joins them;   *)
(* worker thread_num publishes, for index = 0 .. iterations - 1, a fresh   *)
(* SomeValue(thread_num * index) and reads it back inside the publication. *)
(* A reference is the pair <<thread_num, index>> of the local it points    *)
(* to.  No closure of the test panics, so a worker has no unwinding step.  *)
(***************************************************************************)
\* some_value.0 of the local the reference points to: thread_num * index
Deref(r) == r[1] * r[2]

\* let expected_value = thread_num * index
ExpectedValue(t) == ThreadNum(t) * index[t]

\* &some_value of the current iteration of worker t
SomeValueRef(t) == <<ThreadNum(t), index[t]>>

\* the closure handed to with: Ok(()) or one of the two errors
CheckValue(t, maybe_some_value_ref) ==
    IF maybe_some_value_ref # None
    THEN IF Deref(maybe_some_value_ref[1]) # ExpectedValue(t)
         THEN "Err(Got incorrect value value)"
         ELSE "Ok"
    ELSE "Err(Missing some value)"

Worker(t) == t \in Workers /\ mode[t] = "run"

\* thread::spawn of the next worker; handles.push(handle)
TSpawn ==
    /\ mode[Main] = "run"
    /\ index[Main] < NumThreads
    /\ Spawn(Main, index[Main] + 1)
    /\ index' = [index EXCEPT ![Main] = @ + 1]

\* handle.join().unwrap(); result.unwrap(): the next worker has ended, with Ok
TJoin ==
    /\ mode[Main] = "run"
    /\ index[Main] >= NumThreads
    /\ index[Main] < 2 * NumThreads
    /\ LET u == index[Main] - NumThreads + 1
       IN  /\ mode[u] \in {"done", "dead"}
           /\ IF result[u] = Some("Ok")
              THEN /\ index' = [index EXCEPT ![Main] = @ + 1]
                   /\ mode' = [mode EXCEPT ![Main] =
                          IF index[Main] + 1 = 2 * NumThreads THEN "done" ELSE "run"]
                   /\ UNCHANGED <<payload, raised>>
              ELSE /\ UNCHANGED index
                   /\ mode' = [mode EXCEPT ![Main] = "unwind"]
                   /\ payload' = [payload EXCEPT ![Main] = Some("unwrap")]
                   /\ raised' = [raised EXCEPT ![Main] = Some("unwrap")]
    /\ UNCHANGED <<cell, stack, ret, result, published, lastExit>>

\* scoped(&SOME_VALUE, &some_value, || ...) of iteration index
TScoped(t) ==
    /\ Worker(t)
    /\ stack[t] = <<>>
    /\ ret[t] = None
    /\ index[t] < NumIterations
    /\ ScopedCall(t, SOME_VALUE, SomeValueRef(t))

TSet(t) == Worker(t) /\ ScopedSet(t)

\* with(&SOME_VALUE, |maybe_some_value_ref| ...) inside the publication
TWith(t) ==
    /\ Worker(t)
    /\ stack[t] # <<>>
    /\ Top(t).kind = "scoped"
    /\ ret[t] = None
    /\ WithCall(t, SOME_VALUE)

\* the closure of with compares and returns
TWithReturn(t) ==
    /\ Worker(t)
    /\ stack[t] # <<>>
    /\ Top(t).kind = "with"
    /\ WithReturn(t, CheckValue(t, Top(t).value))

\* the closure of scoped returns what with returned
TBodyReturn(t) ==
    /\ Worker(t)
    /\ ret[t] # None
    /\ ScopedBodyReturn(t, ret[t][1])

TCleanup(t) == Worker(t) /\ ScopedCleanup(t)

TReturn(t) == Worker(t) /\ ScopedReturn(t)

\* if let Err(err) = result { return Err(err) }, else the next iteration
TLoop(t) ==
    /\ Worker(t)
    /\ stack[t] = <<>>
    /\ ret[t] # None
    /\ IF ret[t] = Some("Ok")
       THEN /\ index' = [index EXCEPT ![t] = @ + 1]
            /\ UNCHANGED <<mode, result>>
       ELSE /\ mode' = [mode EXCEPT ![t] = "done"]
            /\ result' = [result EXCEPT ![t] = ret[t]]
            /\ UNCHANGED index
    /\ ret' = [ret EXCEPT ![t] = None]
    /\ lastExit' = [lastExit EXCEPT ![t] = NoExit]
    /\ UNCHANGED <<cell, stack, payload, published, raised>>

\* the loop is over: Ok(())
TFinish(t) ==
    /\ Worker(t)
    /\ stack[t] = <<>>
    /\ ret[t] = None
    /\ index[t] = NumIterations
    /\ mode' = [mode EXCEPT ![t] = "done"]
    /\ result' = [result EXCEPT ![t] = Some("Ok")]
    /\ UNCHANGED <<cell, stack, payload, ret, index, published, raised, lastExit>>

NextThreaded ==
    \/ TSpawn
    \/ TJoin
    \/ \E t \in Workers :
        \/ TScoped(t)
        \/ TSet(t)
        \/ TWith(t)
        \/ TWithReturn(t)
        \/ TBodyReturn(t)
        \/ TCleanup(t)
        \/ TReturn(t)
        \/ TLoop(t)
        \/ TFinish(t)

SpecThreaded == Init /\ [][NextThreaded]_vars

(***************************************************************************)
(* Properties of the threads of tests/threaded.rs (SpecThreaded).          *)
(***************************************************************************)
\* nothing of thread b changes in the step: the step is another thread's
Idle(b) ==
    /\ stack'[b] = stack[b]
    /\ mode'[b] = mode[b]
    /\ ret'[b] = ret[b]
    /\ index'[b] = index[b]

\* C6: under every interleaving, a step of one thread (the publish step and
\* the restore step of its scoped calls included) leaves what a with of any
\* other thread on the same slot would receive as it was.
C6_ThreadIsolation ==
    [][\A b \in Threads :
          Idle(b) =>
              /\ WouldRead(b, SOME_VALUE)' = WouldRead(b, SOME_VALUE)
              /\ Get(cell[LocalKey(b, SOME_VALUE)]).ok'
      ]_vars

\* two workers are inside a publication of their own at the same time
C6_Witness ==
    \E a \in Workers, b \in Workers :
        /\ a # b
        /\ WouldRead(a, SOME_VALUE) = Some(SomeValueRef(a))
        /\ WouldRead(b, SOME_VALUE) = Some(SomeValueRef(b))

\* C7: every with of a worker, inside the publication of an iteration, is
\* handed Some of the reference that worker published in that iteration, and
\* no worker ends with an error or a panic.
C7_OwnValueOfIteration ==
    \A t \in Workers :
        /\ mode[t] \in {"idle", "run", "done"}
        /\ result[t] \in {None, Some("Ok")}
        /\ ret[t] \in {None, Some("Ok")}
        /\ \A i \in 1..Len(stack[t]) :
               IsWith(t, i) => stack[t][i].value = Some(SomeValueRef(t))

\* a worker reads inside its second iteration while another worker is inside
\* a publication too
C7_Witness ==
    \E a \in Workers, b \in Workers :
        /\ a # b
        /\ index[a] = 1
        /\ TopIsWith(a)
        /\ Top(a).value = Some(<<ThreadNum(a), 1>>)
        /\ WouldRead(b, SOME_VALUE) # None

(***************************************************************************)
(* A thread spawned from inside a publication.  The main thread publishes  *)
(* on WITH_NAME and, in the body, spawns a thread; both then go on calling *)
(* scoped and with on WITH_NAME, in any interleaving, each nesting its     *)
(* calls up to SpawnDepth deep.                                            *)
(***************************************************************************)
Child == 1
Pair == {Main, Child}

SRoom(t) == Len(stack[t]) < SpawnDepth

SScoped(t, r) == SRoom(t) /\ ScopedCall(t, "WITH_NAME", r)
SWith(t) == SRoom(t) /\ WithCall(t, "WITH_NAME")

\* std::thread::spawn called in the body of a scoped call of the main thread
SSpawn ==
    /\ LibPoint(Main, "body")
    /\ Spawn(Main, Child)
    /\ UNCHANGED index

NextSpawn ==
    \/ SSpawn
    \/ \E t \in Pair :
        \/ \E r \in Refs : SScoped(t, r)
        \/ ScopedSet(t)
        \/ \E v \in {"ret_a"} : ScopedBodyReturn(t, v)
        \/ ScopedCleanup(t)
        \/ ScopedReturn(t)
        \/ SWith(t)
        \/ \E v \in {"ret_a"} : WithReturn(t, v)

SpecSpawn == Init /\ [][NextSpawn]_vars

\* what thread t reads on WITH_NAME by its own calls: the reference of its
\* innermost active scoped call, None if it has none
OwnReference(t) == InnermostBelow(t, Len(stack[t]) + 1, "WITH_NAME")

\* C13: a thread spawned in the body of an active scoped call does not inherit
\* the publication: until it publishes itself its cell is Empty and its with
\* is handed None, whatever the spawning thread's cell holds; afterwards each
\* of the two threads reads its own innermost reference only, so the spawned
\* thread's publications do not alter what the spawning thread reads.
C13_NoInheritance ==
    /\ (mode[Child] = "run" /\ published[Child] = {}) =>
           /\ cell[<<Child, "WITH_NAME">>].value = None
           /\ \A i \in 1..Len(stack[Child]) : stack[Child][i].value = None
    /\ \A t \in Pair :
           /\ UserPoint(t) => WouldRead(t, "WITH_NAME") = OwnReference(t)
           /\ \A i \in 1..Len(stack[t]) :
                  IsWith(t, i) => stack[t][i].value = InnermostBelow(t, i, "WITH_NAME")

\* the spawned thread, not having published, is in the body of a with that
\* was handed None, while the spawning thread is still in the body of its
\* publication
C13_Witness ==
    /\ mode[Child] = "run"
    /\ published[Child] = {}
    /\ TopIsWith(Child)
    /\ Top(Child).value = None
    /\ LibPoint(Main, "body")
    /\ WouldRead(Main, "WITH_NAME") # None

====
